---- MODULE Spec2Model ----
(***************************************************************************)
(* Model of the notebook pet_center_count.ipynb of py-eddy-tracker: two    *)
(* eddy observation sets are loaded, their centers are binned into two     *)
(* masked count grids, the grids are combined (ratio, masked sum) with     *)
(* numpy.ma arithmetic and four panels are drawn.                          *)
(*                                                                         *)
(* Lengths are counted in steps of 0.125 degree (UnitsPerDegree = 8), so   *)
(* that the notebook's bin edges are integers.  A masked array is a record *)
(* [shape, data, mask] whose data and mask are functions over the cells    *)
(* of the shape; a float quotient is the exact pair <<num, den>>.          *)
(***************************************************************************)
EXTENDS Integers, Sequences, FiniteSets

VARIABLES pc, error, a, c, step, bins, kwargs_pcolormesh,
          g_a, g_c, ratio, m_c, m, panel, drawn, cb,
          hist, orig_a, orig_c, shape

\* pc      the statement to run next; error: the exception that stopped the run
\* a, c    the loaded observation sets, sequences of centers <<lon, lat>>
\* g_a, g_c  the grids [lon, lat, count]; ratio, m_c, m: the notebook's names
\* panel   per axes its title and the array drawn on it; drawn: the axes
\*         drawn on; cb: the colorbars
\* hist    history: the stages of the statements run so far
\* orig_a, orig_c  history: the count arrays as the Binner returned them
\* shape   the shape computed from bins (SpecShape only)
vars == <<pc, error, a, c, step, bins, kwargs_pcolormesh,
          g_a, g_c, ratio, m_c, m, panel, drawn, cb,
          hist, orig_a, orig_c, shape>>

----------------------------------------------------------------------------
(* Bounds and program constants *)

\* at most MaxObs observations in a loaded observation set
MaxObs == 2

\* 1 / 0.125: the model's length unit is the notebook's step
UnitsPerDegree == 8

\* the notebook's parameters: step = 0.125, bins = ((-10, 37, step), (30, 46, step))
step_nb == 1

\* variant of bins_nb: the longitude axis stops one degree early
bins_nb_short == <<<<-10 * UnitsPerDegree, 36 * UnitsPerDegree, step_nb>>,
                   <<30 * UnitsPerDegree, 46 * UnitsPerDegree, step_nb>>>>

bins_nb == <<<<-10 * UnitsPerDegree, 37 * UnitsPerDegree, step_nb>>,
             <<30 * UnitsPerDegree, 46 * UnitsPerDegree, step_nb>>>>

\* scaled-down bin specifications (start, stop, step per axis) on which the
\* grids are built cell by cell: 3 x 2 cells, and 2 x 1 cells with a
\* stop that is no multiple of the step
BinConfigs == { <<<<0, 3, 1>>, <<240, 242, 1>>>>,
                <<<<1, 4, 2>>, <<240, 242, 2>>>> }

\* eddy center positions (lon, lat) the sample files may hold; the first
\* one lies outside the second lattice
SamplePositions == { <<0, 240>>, <<1, 240>>, <<2, 240>> }

\* bin specifications on which only the shape of the grids is computed
ShapeStarts == { -10 * UnitsPerDegree, 0, 30 * UnitsPerDegree }
ShapeStops == { 3, 37 * UnitsPerDegree, 46 * UnitsPerDegree }
ShapeSteps == { 1, 2, 3 }
ShapeAxes == ShapeStarts \X ShapeStops \X ShapeSteps
ShapeConfigs == (ShapeAxes \X ShapeAxes) \cup { bins_nb }

----------------------------------------------------------------------------
(* numpy *)

\* len(arange(start, stop, step)) for a positive step
arange_len(ax) ==
    IF ax[2] > ax[1] THEN ((ax[2] - ax[1]) + ax[3] - 1) \div ax[3] ELSE 0

\* arange(start, stop, step)
arange(ax) == [i \in 1..arange_len(ax) |-> ax[1] + (i - 1) * ax[3]]

Cells(sh) == (1..sh[1]) \X (1..sh[2])

\* an array no statement has assigned yet
NoArray == [shape |-> <<0, 0>>, data |-> <<>>, mask |-> <<>>]
NoGrid == [lon |-> <<>>, lat |-> <<>>, count |-> NoArray]

\* variant of ma_true_divide: only the divisor's mask reaches the quotient
ma_true_divide_unsafe(x, y) ==
    [shape |-> x.shape,
     data  |-> [k \in Cells(x.shape) |-> <<x.data[k], y.data[k]>>],
     mask  |-> [k \in Cells(x.shape) |-> y.mask[k]]]

\* x / y of two masked arrays (MaskedArray.__truediv__): a new float array;
\* the quotient is masked where either operand is masked and where the
\* divisor's data is zero (the safe-divide domain), and the masked cells
\* keep the dividend's data

ma_true_divide(x, y) ==
    LET msk == [k \in Cells(x.shape) |->
                   x.mask[k] \/ y.mask[k] \/ y.data[k] = 0]
    IN [shape |-> x.shape,
        data  |-> [k \in Cells(x.shape) |->
                      IF msk[k] THEN <<x.data[k], 1>>
                                ELSE <<x.data[k], y.data[k]>>],
        mask  |-> msk]

\* variant of ma_setitem: the assignment leaves the mask as it is
ma_setitem_keepmask(x, idx, v) ==
    [x EXCEPT !.data = [k \in Cells(x.shape) |->
                           IF idx[k] THEN v ELSE x.data[k]]]

\* x[idx] = v for a boolean index array and an unmasked scalar
\* (MaskedArray.__setitem__, soft mask): data and mask are both set at the
\* selected cells, so these cells become unmasked

ma_setitem(x, idx, v) ==
    [x EXCEPT !.data = [k \in Cells(x.shape) |->
                           IF idx[k] THEN v ELSE x.data[k]],
              !.mask = [k \in Cells(x.shape) |->
                           IF idx[k] THEN FALSE ELSE x.mask[k]]]

\* x += y (MaskedArray.__iadd__): the mask of y is or-ed into the mask of
\* x, then y's data is added where the new mask is clear and 0 elsewhere
ma_iadd(x, y) ==
    LET msk == [k \in Cells(x.shape) |-> x.mask[k] \/ y.mask[k]]
    IN [x EXCEPT !.mask = msk,
                 !.data = [k \in Cells(x.shape) |->
                              x.data[k] + (IF msk[k] THEN 0 ELSE y.data[k])]]

\* variant of ma_setmask: the new mask is or-ed into the old one
ma_setmask_or(x, msk) ==
    [x EXCEPT !.mask = [k \in Cells(x.shape) |-> x.mask[k] \/ msk[k]]]

\* x.mask = msk (the mask setter): the mask is overwritten, data kept
ma_setmask(x, msk) == [x EXCEPT !.mask = msk]

\* variant of mask_and: m1 | m2
mask_or(m1, m2) == [k \in DOMAIN m1 |-> m1[k] \/ m2[k]]

\* m1 & m2 of two boolean arrays: a new array
mask_and(m1, m2) == [k \in DOMAIN m1 |-> m1[k] /\ m2[k]]

----------------------------------------------------------------------------
(* py_eddy_tracker: the library calls of the notebook *)

\* the shape of the grid grid_count builds from a bin specification
GridShape(b) == <<arange_len(b[1]), arange_len(b[2])>>

\* the observations of obs whose center falls in cell k of the lattice b
InCell(obs, b, k) ==
    { i \in 1..Len(obs) :
        /\ obs[i][1] >= b[1][1] + (k[1] - 1) * b[1][3]
        /\ obs[i][1] <  b[1][1] + k[1] * b[1][3]
        /\ obs[i][2] >= b[2][1] + (k[2] - 1) * b[2][3]
        /\ obs[i][2] <  b[2][1] + k[2] * b[2][3] }

\* obs.grid_count(bins, intern=True, center=True): a grid on the lattice of
\* the bins whose "count" is the number of centers per cell, masked where
\* no center fell
grid_count(obs, b) ==
    LET sh  == GridShape(b)
        cnt == [k \in Cells(sh) |-> Cardinality(InCell(obs, b, k))]
    IN [lon   |-> arange(b[1]),
        lat   |-> arange(b[2]),
        count |-> [shape |-> sh,
                   data  |-> cnt,
                   mask  |-> [k \in Cells(sh) |-> cnt[k] = 0]]]

\* the observation sets a sample file may hold
RECURSIVE SeqsUpTo(_, _)
SeqsUpTo(S, n) ==
    IF n = 0 THEN { <<>> }
    ELSE LET shorter == SeqsUpTo(S, n - 1)
         IN shorter \cup { Append(s, x) : s \in { t \in shorter : Len(t) = n - 1 }, x \in S }

ObservationSets == SeqsUpTo(SamplePositions, MaxObs)

----------------------------------------------------------------------------
(* The notebook *)

Axes == { "ax_a", "ax_c", "ax_all", "ax_ratio" }

Title(ax) ==
    CASE ax = "ax_a"     -> "Anticyclonic center frequency"
      [] ax = "ax_c"     -> "Cyclonic center frequency"
      [] ax = "ax_all"   -> "All eddies center frequency"
      [] ax = "ax_ratio" -> "Ratio cyclonic / Anticyclonic"

NoPanel == [title |-> "", image |-> NoArray, factor |-> "", framed |-> FALSE]

\* the stage of the pipeline each statement belongs to
Stage(p) ==
    CASE p \in { "load_a", "load_c" }                             -> "Loader"
      [] p \in { "grid_a", "grid_c" }                             -> "Binner"
      [] p \in { "ratio", "bind_m_c", "bind_m", "setitem", "iadd",
                 "setmask", "overwrite" }                         -> "Compositor"
      [] p \in { "figure", "display_a", "display_c", "display_all",
                 "colorbar_all", "display_ratio", "colorbar_ratio",
                 "frame" }                                        -> "Renderer"
      [] OTHER                                                    -> "Parameters"

\* grid.display(ax, name="count", factor=f, ...): draws vars["count"] on
\* the axes and returns the mesh
display(grid, ax, f) ==
    [panel EXCEPT ![ax].image = grid.count, ![ax].factor = f]

Init ==
    /\ pc = "load_a"
    /\ error = "none"
    /\ a = <<>>
    /\ c = <<>>
    /\ step = 0
    /\ bins = <<>>
    /\ kwargs_pcolormesh = [factor |-> "", name |-> ""]
    /\ g_a = NoGrid
    /\ g_c = NoGrid
    /\ ratio = NoArray
    /\ m_c = <<>>
    /\ m = <<>>
    /\ panel = [ax \in Axes |-> NoPanel]
    /\ drawn = {}
    /\ cb = {}
    /\ hist = <<>>
    /\ orig_a = NoArray
    /\ orig_c = NoArray
    /\ shape = <<0, 0>>

\* the statement at p runs and control moves to q
Goto(p, q) ==
    /\ pc = p
    /\ error = "none"
    /\ pc' = q
    /\ hist' = Append(hist, Stage(p))

\* a = TrackEddiesObservations.load_file(... "Anticyclonic.zarr"): the file
\* is read, or the call fails and the run stops
LoadA ==
    /\ pc = "load_a"
    /\ error = "none"
    /\ \/ /\ \E o \in ObservationSets : a' = o
          /\ pc' = "load_c"
          /\ hist' = Append(hist, Stage("load_a"))
          /\ error' = error
       \/ /\ error' = "load_file"
          /\ UNCHANGED <<a, pc, hist>>
    /\ UNCHANGED <<c, step, bins, kwargs_pcolormesh, g_a, g_c, ratio, m_c, m,
                   panel, drawn, cb, orig_a, orig_c, shape>>

\* c = TrackEddiesObservations.load_file(... "Cyclonic.zarr")
LoadC ==
    /\ pc = "load_c"
    /\ error = "none"
    /\ \/ /\ \E o \in ObservationSets : c' = o
          /\ pc' = "params"
          /\ hist' = Append(hist, Stage("load_c"))
          /\ error' = error
       \/ /\ error' = "load_file"
          /\ UNCHANGED <<c, pc, hist>>
    /\ UNCHANGED <<a, step, bins, kwargs_pcolormesh, g_a, g_c, ratio, m_c, m,
                   panel, drawn, cb, orig_a, orig_c, shape>>

\* step = 0.125; bins = (..., ..., step), (..., ..., step);
\* kwargs_pcolormesh = dict(..., factor=1 / (step ** 2 * (t1 - t0)), name="count")
Parameters ==
    /\ Goto("params", "figure")
    /\ \E b \in BinConfigs : bins' = b /\ step' = b[1][3]
    /\ kwargs_pcolormesh' = [factor |-> "1 / (step ** 2 * (t1 - t0))", name |-> "count"]
    /\ UNCHANGED <<error, a, c, g_a, g_c, ratio, m_c, m, panel, drawn, cb,
                   orig_a, orig_c, shape>>

\* fig = plt.figure(...); the four axes are added and titled
Figure ==
    /\ Goto("figure", "grid_a")
    /\ panel' = [ax \in Axes |-> [panel[ax] EXCEPT !.title = Title(ax)]]
    /\ UNCHANGED <<error, a, c, step, bins, kwargs_pcolormesh, g_a, g_c, ratio,
                   m_c, m, drawn, cb, orig_a, orig_c, shape>>

\* g_a = a.grid_count(bins, intern=True, center=True)
GridA ==
    /\ Goto("grid_a", "display_a")
    /\ g_a' = grid_count(a, bins)
    /\ orig_a' = g_a'.count
    /\ UNCHANGED <<error, a, c, step, bins, kwargs_pcolormesh, g_c, ratio,
                   m_c, m, panel, drawn, cb, orig_c, shape>>

\* g_a.display(ax_a, **kwargs_pcolormesh)
DisplayA ==
    /\ Goto("display_a", "grid_c")
    /\ panel' = display(g_a, "ax_a", kwargs_pcolormesh.factor)
    /\ drawn' = drawn \cup { "ax_a" }
    /\ UNCHANGED <<error, a, c, step, bins, kwargs_pcolormesh, g_a, g_c, ratio,
                   m_c, m, cb, orig_a, orig_c, shape>>

\* variant of GridC: the cyclonic grid is built with a doubled longitude step
GridC_coarser ==
    /\ Goto("grid_c", "display_c")
    /\ g_c' = grid_count(c, <<<<bins[1][1], bins[1][2], 2 * bins[1][3]>>, bins[2]>>)
    /\ orig_c' = g_c'.count
    /\ UNCHANGED <<error, a, c, step, bins, kwargs_pcolormesh, g_a, ratio,
                   m_c, m, panel, drawn, cb, orig_a, shape>>

\* g_c = c.grid_count(bins, intern=True, center=True)
GridC ==
    /\ Goto("grid_c", "display_c")
    /\ g_c' = grid_count(c, bins)
    /\ orig_c' = g_c'.count
    /\ UNCHANGED <<error, a, c, step, bins, kwargs_pcolormesh, g_a, ratio,
                   m_c, m, panel, drawn, cb, orig_a, shape>>

\* variant of DisplayC: the display scales the grid it draws in place
DisplayC_scaling ==
    /\ Goto("display_c", "ratio")
    /\ g_c' = [g_c EXCEPT !.count.data =
                   [k \in Cells(g_c.count.shape) |-> 2 * g_c.count.data[k]]]
    /\ panel' = display(g_c', "ax_c", kwargs_pcolormesh.factor)
    /\ drawn' = drawn \cup { "ax_c" }
    /\ UNCHANGED <<error, a, c, step, bins, kwargs_pcolormesh, g_a, ratio,
                   m_c, m, cb, orig_a, orig_c, shape>>

\* g_c.display(ax_c, **kwargs_pcolormesh)
DisplayC ==
    /\ Goto("display_c", "ratio")
    /\ panel' = display(g_c, "ax_c", kwargs_pcolormesh.factor)
    /\ drawn' = drawn \cup { "ax_c" }
    /\ UNCHANGED <<error, a, c, step, bins, kwargs_pcolormesh, g_a, g_c, ratio,
                   m_c, m, cb, orig_a, orig_c, shape>>

\* variant of Ratio: a zero divisor raises and the run stops
Ratio_raising ==
    /\ pc = "ratio"
    /\ error = "none"
    /\ IF \E k \in Cells(g_a.count.shape) : g_a.count.data[k] = 0
       THEN /\ error' = "ZeroDivisionError"
            /\ UNCHANGED <<pc, hist, ratio>>
       ELSE /\ pc' = "bind_m_c"
            /\ hist' = Append(hist, Stage("ratio"))
            /\ ratio' = ma_true_divide(g_c.count, g_a.count)
            /\ error' = error
    /\ UNCHANGED <<a, c, step, bins, kwargs_pcolormesh, g_a, g_c,
                   m_c, m, panel, drawn, cb, orig_a, orig_c, shape>>

\* ratio = g_c.vars["count"] / g_a.vars["count"]
Ratio ==
    /\ Goto("ratio", "bind_m_c")
    /\ ratio' = ma_true_divide(g_c.count, g_a.count)
    /\ UNCHANGED <<error, a, c, step, bins, kwargs_pcolormesh, g_a, g_c,
                   m_c, m, panel, drawn, cb, orig_a, orig_c, shape>>

\* m_c = g_c.vars["count"].mask: a view of the mask, which follows every
\* later in-place change of that mask
BindMC ==
    /\ Goto("bind_m_c", "bind_m")
    /\ m_c' = g_c.count.mask
    /\ UNCHANGED <<error, a, c, step, bins, kwargs_pcolormesh, g_a, g_c, ratio,
                   m, panel, drawn, cb, orig_a, orig_c, shape>>

\* m = m_c & g_a.vars["count"].mask
BindM ==
    /\ Goto("bind_m", "setitem")
    /\ m' = mask_and(m_c, g_a.count.mask)
    /\ UNCHANGED <<error, a, c, step, bins, kwargs_pcolormesh, g_a, g_c, ratio,
                   m_c, panel, drawn, cb, orig_a, orig_c, shape>>

\* g_c.vars["count"][m_c] = 0
SetItem ==
    /\ Goto("setitem", "iadd")
    /\ g_c' = [g_c EXCEPT !.count = ma_setitem(g_c.count, m_c, 0)]
    /\ m_c' = g_c'.count.mask
    /\ UNCHANGED <<error, a, c, step, bins, kwargs_pcolormesh, g_a, ratio,
                   m, panel, drawn, cb, orig_a, orig_c, shape>>

\* variant of IAdd: the sum is accumulated in the anticyclonic grid
IAdd_swapped ==
    /\ Goto("iadd", "setmask")
    /\ g_a' = [g_a EXCEPT !.count = ma_iadd(g_a.count, g_c.count)]
    /\ UNCHANGED <<error, a, c, step, bins, kwargs_pcolormesh, g_c, ratio,
                   m_c, m, panel, drawn, cb, orig_a, orig_c, shape>>

\* g_c.vars["count"] += g_a.vars["count"]
IAdd ==
    /\ Goto("iadd", "setmask")
    /\ g_c' = [g_c EXCEPT !.count = ma_iadd(g_c.count, g_a.count)]
    /\ m_c' = g_c'.count.mask
    /\ UNCHANGED <<error, a, c, step, bins, kwargs_pcolormesh, g_a, ratio,
                   m, panel, drawn, cb, orig_a, orig_c, shape>>

\* g_c.vars["count"].mask = m
SetMask ==
    /\ Goto("setmask", "display_all")
    /\ g_c' = [g_c EXCEPT !.count = ma_setmask(g_c.count, m)]
    /\ m_c' = g_c'.count.mask
    /\ UNCHANGED <<error, a, c, step, bins, kwargs_pcolormesh, g_a, ratio,
                   m, panel, drawn, cb, orig_a, orig_c, shape>>

\* m = g_c.display(ax_all, **kwargs_pcolormesh)
DisplayAll ==
    /\ Goto("display_all", "colorbar_all")
    /\ panel' = display(g_c, "ax_all", kwargs_pcolormesh.factor)
    /\ drawn' = drawn \cup { "ax_all" }
    /\ m' = "mesh of ax_all"
    /\ UNCHANGED <<error, a, c, step, bins, kwargs_pcolormesh, g_a, g_c, ratio,
                   m_c, cb, orig_a, orig_c, shape>>

\* cb = plt.colorbar(m, cax=...); cb.set_label("Eddies by 1 deg^2 by day")
ColorbarAll ==
    /\ Goto("colorbar_all", "overwrite")
    /\ cb' = cb \cup { [mesh |-> m, label |-> "Eddies by 1 deg^2 by day"] }
    /\ UNCHANGED <<error, a, c, step, bins, kwargs_pcolormesh, g_a, g_c, ratio,
                   m_c, m, panel, drawn, orig_a, orig_c, shape>>

\* variant of Overwrite: the quotient is taken of the entry's present value
Overwrite_late ==
    /\ Goto("overwrite", "display_ratio")
    /\ g_c' = [g_c EXCEPT !.count = ma_true_divide(g_c.count, g_a.count)]
    /\ UNCHANGED <<error, a, c, step, bins, kwargs_pcolormesh, g_a, ratio,
                   m_c, m, panel, drawn, cb, orig_a, orig_c, shape>>

\* g_c.vars["count"] = ratio: the entry is bound to the ratio array; m_c
\* stays a view of the mask of the array the entry held before
Overwrite ==
    /\ Goto("overwrite", "display_ratio")
    /\ g_c' = [g_c EXCEPT !.count = ratio]
    /\ UNCHANGED <<error, a, c, step, bins, kwargs_pcolormesh, g_a, ratio,
                   m_c, m, panel, drawn, cb, orig_a, orig_c, shape>>

\* m = g_c.display(ax_ratio, name="count", vmin=0.1, vmax=10, norm=LogNorm(), ...)
DisplayRatio ==
    /\ Goto("display_ratio", "colorbar_ratio")
    /\ panel' = display(g_c, "ax_ratio", "1")
    /\ drawn' = drawn \cup { "ax_ratio" }
    /\ m' = "mesh of ax_ratio"
    /\ UNCHANGED <<error, a, c, step, bins, kwargs_pcolormesh, g_a, g_c, ratio,
                   m_c, cb, orig_a, orig_c, shape>>

\* plt.colorbar(m, cax=...)
ColorbarRatio ==
    /\ Goto("colorbar_ratio", "frame")
    /\ cb' = cb \cup { [mesh |-> m, label |-> ""] }
    /\ UNCHANGED <<error, a, c, step, bins, kwargs_pcolormesh, g_a, g_c, ratio,
                   m_c, m, panel, drawn, orig_a, orig_c, shape>>

\* for ax in (ax_a, ax_c, ax_all, ax_ratio): set_aspect, set_xlim, set_ylim, grid
Frame ==
    /\ Goto("frame", "done")
    /\ panel' = [ax \in Axes |-> [panel[ax] EXCEPT !.framed = TRUE]]
    /\ UNCHANGED <<error, a, c, step, bins, kwargs_pcolormesh, g_a, g_c, ratio,
                   m_c, m, drawn, cb, orig_a, orig_c, shape>>

Next ==
    \/ LoadA \/ LoadC \/ Parameters \/ Figure
    \/ GridA \/ DisplayA \/ GridC \/ DisplayC
    \/ Ratio \/ BindMC \/ BindM \/ SetItem \/ IAdd \/ SetMask
    \/ DisplayAll \/ ColorbarAll \/ Overwrite \/ DisplayRatio \/ ColorbarRatio
    \/ Frame

Spec == Init /\ [][Next]_vars

----------------------------------------------------------------------------
(* The shape of the grids as a function of the bin specification *)

InitShape ==
    /\ pc = "shape"
    /\ error = "none"
    /\ a = <<>>
    /\ c = <<>>
    /\ step = 0
    /\ bins \in ShapeConfigs
    /\ kwargs_pcolormesh = [factor |-> "", name |-> ""]
    /\ g_a = NoGrid
    /\ g_c = NoGrid
    /\ ratio = NoArray
    /\ m_c = <<>>
    /\ m = <<>>
    /\ panel = [ax \in Axes |-> NoPanel]
    /\ drawn = {}
    /\ cb = {}
    /\ hist = <<>>
    /\ orig_a = NoArray
    /\ orig_c = NoArray
    /\ shape = <<0, 0>>

\* the shape of the grid a.grid_count(bins, ...) returns
ShapeOf ==
    /\ pc = "shape"
    /\ pc' = "shape_done"
    /\ shape' = GridShape(bins)
    /\ UNCHANGED <<error, a, c, step, bins, kwargs_pcolormesh, g_a, g_c, ratio,
                   m_c, m, panel, drawn, cb, hist, orig_a, orig_c>>

NextShape == ShapeOf

SpecShape == InitShape /\ [][NextShape]_vars

----------------------------------------------------------------------------
(* Properties *)

\* the places of the run at which the "count" entry of g_c holds the
\* original cyclonic count, the combined count and the ratio
HoldsCyclonic == { "display_c", "ratio", "bind_m_c", "bind_m", "setitem" }
HoldsCombined == { "display_all", "colorbar_all", "overwrite" }
HoldsRatio == { "display_ratio", "colorbar_ratio", "frame", "done" }
AfterRatio == { "bind_m_c", "bind_m", "setitem", "iadd", "setmask" }
                  \cup HoldsCombined \cup HoldsRatio
AfterGridA == { "display_a", "grid_c" } \cup HoldsCyclonic
                  \cup { "iadd", "setmask" } \cup HoldsCombined \cup HoldsRatio
AfterGridC == AfterGridA \ { "display_a", "grid_c" }

OrigCells == Cells(orig_c.shape)

\* the count of an input grid at a cell, a masked cell counting as zero
CountOrZero(arr, k) == IF arr.mask[k] THEN 0 ELSE arr.data[k]

\* arr is the masked sum of the two counts the Binner returned
IsCombined(arr) ==
    /\ arr.shape = orig_c.shape
    /\ \A k \in OrigCells :
          /\ arr.mask[k] <=> (orig_c.mask[k] /\ orig_a.mask[k])
          /\ ~arr.mask[k] =>
                arr.data[k] = CountOrZero(orig_c, k) + CountOrZero(orig_a, k)

\* the quotient is defined at cell k
Defined(k) == ~orig_c.mask[k] /\ ~orig_a.mask[k] /\ orig_a.data[k] # 0

\* arr is the quotient of the two counts the Binner returned
IsRatio(arr) ==
    /\ arr.shape = orig_c.shape
    /\ \A k \in OrigCells :
          /\ arr.mask[k] <=> ~Defined(k)
          /\ ~arr.mask[k] =>
                /\ arr.data[k][2] # 0
                /\ arr.data[k][1] * orig_a.data[k] = orig_c.data[k] * arr.data[k][2]

\* C1: after the mask assignment a cell of the combined grid is masked if
\* and only if it was masked in both the cyclonic and the anticyclonic grid
\* the Binner returned
C1_CombinedMaskIsAnd ==
    pc \in HoldsCombined =>
        \A k \in OrigCells :
            g_c.count.mask[k] <=> (orig_c.mask[k] /\ orig_a.mask[k])

C1_Witness ==
    /\ pc = "display_all"
    /\ \E k \in OrigCells : orig_c.mask[k] /\ orig_a.mask[k]
    /\ \E k \in OrigCells : orig_c.mask[k] /\ ~orig_a.mask[k]
    /\ \E k \in OrigCells : ~orig_c.mask[k] /\ orig_a.mask[k]

\* C2: at every cell unmasked in at least one input grid the combined grid
\* holds the sum of the two original counts, a masked count being zero
C2_CombinedValueIsSum ==
    pc \in HoldsCombined =>
        \A k \in OrigCells :
            ~(orig_c.mask[k] /\ orig_a.mask[k]) =>
                /\ ~g_c.count.mask[k]
                /\ g_c.count.data[k] = CountOrZero(orig_c, k) + CountOrZero(orig_a, k)

C2_Witness ==
    /\ pc = "display_all"
    /\ \E k \in OrigCells : orig_c.mask[k] /\ ~orig_a.mask[k]
    /\ \E k \in OrigCells : ~orig_c.mask[k] /\ orig_a.mask[k]
    /\ \E k \in OrigCells :
          ~orig_c.mask[k] /\ ~orig_a.mask[k] /\ g_c.count.data[k] > orig_c.data[k]

\* C3: the ratio finally stored in the "count" entry of g_c, and drawn in
\* the ratio panel, is at every cell where both original counts are
\* unmasked and the anticyclonic one is nonzero the original cyclonic count
\* divided by the original anticyclonic count
C3_RatioOfOriginalCounts ==
    /\ pc \in HoldsRatio =>
          \A k \in OrigCells :
              Defined(k) =>
                  /\ ~g_c.count.mask[k]
                  /\ g_c.count.data[k][2] # 0
                  /\ g_c.count.data[k][1] * orig_a.data[k]
                        = orig_c.data[k] * g_c.count.data[k][2]
    /\ "ax_ratio" \in drawn => panel["ax_ratio"].image = g_c.count

C3_Witness ==
    /\ pc = "done"
    /\ \E k \in OrigCells :
          Defined(k) /\ orig_c.data[k] # orig_a.data[k] /\ ~g_c.count.mask[k]

\* C4: once built, the anticyclonic grid, the cyclonic grid (which becomes
\* the combined grid and then the ratio grid), the ratio and every drawn
\* image have the shape the bins give, and the two grids have the same
\* bin edges
C4_SameShapeAndEdges ==
    /\ pc \in AfterGridA =>
          /\ g_a.count.shape = GridShape(bins)
          /\ DOMAIN g_a.count.data = Cells(GridShape(bins))
          /\ DOMAIN g_a.count.mask = Cells(GridShape(bins))
    /\ pc \in AfterGridC =>
          /\ g_c.count.shape = g_a.count.shape
          /\ DOMAIN g_c.count.data = DOMAIN g_a.count.data
          /\ DOMAIN g_c.count.mask = DOMAIN g_a.count.mask
          /\ g_c.lon = g_a.lon
          /\ g_c.lat = g_a.lat
          /\ <<Len(g_c.lon), Len(g_c.lat)>> = g_c.count.shape
    /\ pc \in AfterRatio =>
          /\ ratio.shape = g_a.count.shape
          /\ DOMAIN ratio.data = DOMAIN g_a.count.data
          /\ DOMAIN ratio.mask = DOMAIN g_a.count.mask
    /\ \A ax \in drawn : panel[ax].image.shape = GridShape(bins)

C4_Witness ==
    /\ pc = "done"
    /\ drawn = Axes
    /\ g_c.count = ratio
    /\ g_a.count.shape = <<2, 1>>

\* C5 as stated: when a cell of the anticyclonic grid has count zero the
\* run stops at the ratio statement and no later statement is executed
C5_DivisionByZeroHalts ==
    (\E k \in Cells(orig_a.shape) : orig_a.data[k] = 0) => pc \notin AfterRatio

\* C5 amended: a zero anticyclonic count raises nothing; the ratio is
\* masked at that cell and the statements after the division are executed
C5_DivisionByZeroIsMasked ==
    (pc \in AfterRatio \cup { "ratio" }
        /\ \E k \in Cells(orig_a.shape) : orig_a.data[k] = 0) =>
        /\ error = "none"
        /\ pc \in AfterRatio =>
              \A k \in Cells(orig_a.shape) : orig_a.data[k] = 0 => ratio.mask[k]

C5_Witness ==
    /\ pc = "done"
    /\ drawn = Axes
    /\ \E k \in Cells(orig_a.shape) : orig_a.data[k] = 0 /\ ~orig_c.mask[k]

StageRank(st) ==
    CASE st = "Loader"     -> 1
      [] st = "Binner"     -> 2
      [] st = "Compositor" -> 3
      [] st = "Renderer"   -> 4

IsStage(st) == st # "Parameters"
NotRenderer(st) == st \in { "Loader", "Binner", "Compositor" }

InStageOrder(h) ==
    \A i, j \in 1..Len(h) : i < j => StageRank(h[i]) <= StageRank(h[j])

\* C6 as stated: the statements run in the order of the stages Loader,
\* Binner, Compositor, Renderer
C6_StagesStrictlyForward == InStageOrder(SelectSeq(hist, IsStage))

\* C6 amended: the Loader, Binner and Compositor statements run in the
\* order of their stages, every display draws a grid built before it, and
\* no Renderer statement changes the observation sets, the bins, the grids
\* or the ratio; the Renderer statements are interleaved with the others
C6_ForwardWithInterleavedRenderer ==
    /\ [](/\ InStageOrder(SelectSeq(hist, NotRenderer))
          /\ "ax_a" \in drawn => pc \in AfterGridA
          /\ drawn \ { "ax_a" } # {} => pc \in AfterGridC)
    /\ [][Stage(pc) = "Renderer" =>
             UNCHANGED <<a, c, step, bins, g_a, g_c, ratio, m_c>>]_vars

C6_Witness ==
    /\ pc = "done"
    /\ \E i, j \in 1..Len(hist) :
          i < j /\ hist[i] = "Renderer" /\ hist[j] = "Binner"
    /\ \E i, j \in 1..Len(hist) :
          i < j /\ hist[i] = "Renderer" /\ hist[j] = "Compositor"

C8_SequentialReuse ==
    /\ pc \in HoldsCyclonic => g_c.count = orig_c
    /\ pc \in HoldsCombined => IsCombined(g_c.count)
    /\ pc \in HoldsRatio => IsRatio(g_c.count)
    /\ "ax_c" \in drawn =>
          /\ panel["ax_c"].title = "Cyclonic center frequency"
          /\ panel["ax_c"].image = orig_c
    /\ "ax_all" \in drawn =>
          /\ panel["ax_all"].title = "All eddies center frequency"
          /\ IsCombined(panel["ax_all"].image)
          /\ pc \in (HoldsCombined \ { "display_all" }) \cup HoldsRatio
    /\ "ax_ratio" \in drawn =>
          /\ panel["ax_ratio"].title = "Ratio cyclonic / Anticyclonic"
          /\ IsRatio(panel["ax_ratio"].image)
          /\ pc \in HoldsRatio \ { "display_ratio" }

C8_Witness ==
    /\ pc = "done"
    /\ drawn = Axes
    /\ panel["ax_c"].image # panel["ax_all"].image
    /\ \E k \in OrigCells : ~panel["ax_ratio"].image.mask[k]
    /\ \E k \in OrigCells : orig_c.mask[k] /\ ~panel["ax_all"].image.mask[k]

\* C9: the ratio is unmasked exactly at the cells where both original
\* counts are unmasked and the anticyclonic count is nonzero
C9_RatioMaskedWhereUndefined ==
    /\ pc \in AfterRatio =>
          \A k \in OrigCells : ratio.mask[k] <=> ~Defined(k)
    /\ pc \in HoldsRatio =>
          \A k \in OrigCells : g_c.count.mask[k] <=> ~Defined(k)

C9_Witness ==
    /\ pc = "done"
    /\ \E k \in OrigCells : ~g_c.count.mask[k]
    /\ \E k \in OrigCells : g_c.count.mask[k] /\ orig_c.mask[k] /\ ~orig_a.mask[k]
    /\ \E k \in OrigCells : g_c.count.mask[k] /\ ~orig_c.mask[k] /\ orig_a.mask[k]

\* C10: once the Binner has returned the anticyclonic grid no statement
\* changes it, and no statement changes an observation set once loaded
C10_OnlyCyclonicGridMutated ==
    [][/\ pc \in AfterGridA => g_a' = g_a
       /\ pc # "load_a" => a' = a
       /\ pc \notin { "load_a", "load_c" } => c' = c]_vars

C10_Witness ==
    /\ pc = "done"
    /\ Len(a) > 0
    /\ Len(c) > 0
    /\ g_a = grid_count(a, bins)
    /\ g_c.count = ratio
    /\ \E k \in OrigCells : ~g_a.count.mask[k] /\ ~orig_c.mask[k]

====
